---- MODULE Spec2Model ----
(***************************************************************************)
(* Client-side synchronisation engine of the decision graph editor        *)
(* (LocationDetailPage): the in-memory graph, the reconciliation of       *)
(* fetched snapshots, the editing tracker, the save scheduler and the     *)
(* poll loop.  Time is counted in units of 100 ms.                        *)
(***************************************************************************)
EXTENDS Integers, Sequences, FiniteSets, TLC

(* ---------------------------------------------------------------------- *)
(* Program constants (in units of 100 ms unless stated otherwise)         *)
(* ---------------------------------------------------------------------- *)
\* 1000 ms: minimum distance of a non-immediate save from the last success
THROTTLE_MS == 10
\* 24 * 60 * 60 * 1000 ms: the age from which a cached entry is too old
DAY_MS == 864000
\* 2000 ms: re-invocation delay of a save deferred because of active edits
EDIT_DEFER_MS == 20
\* 100 ms: delay before a dequeued request is re-invoked
QUEUE_DELAY_MS == 1
\* 1000 ms: retry delay unit, multiplied by the attempt number
RETRY_BASE_MS == 10
\* retryCount < 3 allows a retry
MAX_RETRY == 3
\* 1000 ms: polling resumes this long after a save ended
RESUME_DELAY_MS == 10
\* 200 ms: settle delay between the end of an edit and the save request
SETTLE_DELAY_MS == 2
\* 300 ms: delay between a delete and its immediate save
DELETE_DELAY_MS == 3

(* ---------------------------------------------------------------------- *)
(* Bounds of the model                                                    *)
(* ---------------------------------------------------------------------- *)
\* user and environment operations per behaviour of the timed system
MaxOps == 3
\* user and environment operations per behaviour of the reconciliation system
MaxSyncOps == 4
\* delete operations applied to a drawn store
MaxStoreOps == 1
\* user operations per behaviour of the retry system
MaxRetryOps == 2
\* handler calls per behaviour of the reconciliation on drawn stores
MaxMergeOps == 3
\* handler calls per behaviour of the edit specification
MaxEditOps == 4
\* handler calls per behaviour of the node creation specification
MaxCreateOps == 4
\* handler calls per behaviour of the teardown specification
MaxTeardownOps == 3
\* handler calls per behaviour of the cache specification
MaxCacheOps == 3
\* handler calls per behaviour of the deferred save specification
MaxDeferOps == 4
\* length of the timed request scenario, in units of 100 ms
MaxScenarioTime == 12
\* outcome nodes of a drawn store
MaxStoreNum == 2
\* poll fetches in flight at the same time
MaxFetch == 1
\* largest numeric suffix of a node id in the explored stores
MaxNodeNum == 2

(* ---------------------------------------------------------------------- *)
(* Ids, nodes, edges, snapshots                                           *)
(* ---------------------------------------------------------------------- *)
\* the sentinel id 'root'
RootId == <<"root", 0>>

\* `node-${n}`
NodeId(n) == <<"node", n>>

\* an edge id that names the target first; the shape of a created edge is
\* expected to break under it
EdgeIdTargetFirst(s, t) == <<"edge", t, s>>

\* `edge-${source}-${target}`
EdgeId(s, t) == <<"edge", s, t>>

\* n.id.match(/node-(\d+)/) ? parseInt(match[1]) : 0
NodeSuffix(id) == IF id[1] = "node" THEN id[2] ELSE 0

\* a node of the store: the persisted fields and the edit flag
StoreNode(id, type, position, text, cost, completed, isEditing) ==
    [id |-> id, type |-> type, position |-> position, text |-> text,
     cost |-> cost, completed |-> completed, isEditing |-> isEditing]

\* a node as sent to and received from the remote store
WireNode(id, type, position, text, cost, completed) ==
    [id |-> id, type |-> type, position |-> position, text |-> text,
     cost |-> cost, completed |-> completed]

\* an edge; the store and the wire hold the same fields
Edge(id, source, target, text, completed) ==
    [id |-> id, source |-> source, target |-> target, text |-> text,
     completed |-> completed]

SeqToSet(s) == {s[i] : i \in DOMAIN s}

RECURSIVE SeqFilter(_, _)
\* Array.prototype.filter with the kept elements given as a set
SeqFilter(s, keep) ==
    IF s = <<>> THEN <<>>
    ELSE IF Head(s) \in keep THEN <<Head(s)>> \o SeqFilter(Tail(s), keep)
    ELSE SeqFilter(Tail(s), keep)

\* Array.prototype.find on ids; <<>> stands for undefined
FindById(s, id) ==
    IF \E i \in DOMAIN s : s[i].id = id
    THEN <<s[CHOOSE i \in DOMAIN s :
                s[i].id = id /\ \A j \in DOMAIN s : s[j].id = id => i <= j]>>
    ELSE <<>>

Max(S) == CHOOSE x \in S : \A y \in S : y <= x

(* ---------------------------------------------------------------------- *)
(* Reconciler: processGraphData                                           *)
(* ---------------------------------------------------------------------- *)
\* the decoration of a loaded node: the edit flag is reset
LoadedNode(w) ==
    StoreNode(w.id, w.type, w.position, w.text, w.cost, w.completed, FALSE)

\* the decoration of a loaded edge adds presentation fields only
LoadedEdge(e) == Edge(e.id, e.source, e.target, e.text, e.completed)

\* a wholesale test that also fires for a store of two nodes; the protection
\* of the EditSet is expected to break under it
NodesWholesaleLoose(prev, isFromLocalStorage) ==
    Len(prev) <= 2 \/ isFromLocalStorage

\* the wholesale-replacement test of the node updater
NodesWholesale(prev, isFromLocalStorage) ==
    Len(prev) <= 1 \/ isFromLocalStorage

\* the wholesale-replacement test of the edge updater
EdgesWholesale(prev, isFromLocalStorage) ==
    Len(prev) = 0 \/ isFromLocalStorage

\* a merge that keeps the local nodes the snapshot does not hold; the
\* round trip through the remote store is expected to break under it
MergeNodesKeepLocal(prev, graphNodes, editing, isFromLocalStorage) ==
    LET loadedNodes == [i \in DOMAIN graphNodes |-> LoadedNode(graphNodes[i])]
        rootNode == FindById(prev, RootId)
        keptNodes ==
            SeqFilter(prev, {n \in SeqToSet(prev) :
                                /\ n.id # RootId
                                /\ \/ n.id \in editing
                                   \/ \A i \in DOMAIN graphNodes :
                                          graphNodes[i].id # n.id})
        serverNodes ==
            SeqFilter(loadedNodes,
                      {n \in SeqToSet(loadedNodes) : n.id \notin editing})
    IN  IF NodesWholesale(prev, isFromLocalStorage)
        THEN rootNode \o loadedNodes
        ELSE rootNode \o serverNodes \o keptNodes

\* the updater passed to setNodes
MergeNodes(prev, graphNodes, editing, isFromLocalStorage) ==
    LET loadedNodes == [i \in DOMAIN graphNodes |-> LoadedNode(graphNodes[i])]
        rootNode == FindById(prev, RootId)
        editingNodes ==
            SeqFilter(prev, {n \in SeqToSet(prev) :
                                n.id # RootId /\ n.id \in editing})
        serverNodes ==
            SeqFilter(loadedNodes,
                      {n \in SeqToSet(loadedNodes) : n.id \notin editing})
    IN  IF NodesWholesale(prev, isFromLocalStorage)
        THEN rootNode \o loadedNodes
        ELSE rootNode \o serverNodes \o editingNodes

\* a counter seeded from the number of loaded nodes; the seeding from the
\* largest suffix is expected to break under it
MergeCounterByCount(prev, graphNodes, counter, isFromLocalStorage) ==
    IF NodesWholesale(prev, isFromLocalStorage) /\ Len(graphNodes) > 0
    THEN Len(graphNodes) + 1
    ELSE counter

\* setNodeCounter(maxCounter + 1), called on the wholesale path only
MergeCounter(prev, graphNodes, counter, isFromLocalStorage) ==
    IF NodesWholesale(prev, isFromLocalStorage) /\ Len(graphNodes) > 0
    THEN Max({NodeSuffix(graphNodes[i].id) : i \in DOMAIN graphNodes}) + 1
    ELSE counter

\* the updater passed to setEdges
MergeEdges(prev, graphEdges, editing, isFromLocalStorage) ==
    LET loadedEdges == [i \in DOMAIN graphEdges |-> LoadedEdge(graphEdges[i])]
        editingEdgesKept ==
            SeqFilter(prev, {e \in SeqToSet(prev) : e.id \in editing})
        serverEdges ==
            SeqFilter(loadedEdges,
                      {e \in SeqToSet(loadedEdges) : e.id \notin editing})
    IN  IF EdgesWholesale(prev, isFromLocalStorage)
        THEN loadedEdges
        ELSE serverEdges \o editingEdgesKept

(* ---------------------------------------------------------------------- *)
(* Root node effect                                                       *)
(* ---------------------------------------------------------------------- *)
\* location && (location.number || location.name || location.picture)
HasMetadata(loc) == loc = "meta"

\* the root node built by the effect; the position of an existing root is kept
RootNodeOf(prev) ==
    LET existingRoot == FindById(prev, RootId)
    IN  StoreNode(RootId, "rootNode",
                  IF existingRoot # <<>> THEN existingRoot[1].position
                  ELSE <<250, 50>>,
                  "", "", FALSE, FALSE)

\* the nodes after the effect that follows a change of the location metadata
RootEffectNodes(prev, loc) ==
    IF HasMetadata(loc)
    THEN IF FindById(prev, RootId) # <<>>
         THEN [i \in DOMAIN prev |->
                  IF prev[i].id = RootId THEN RootNodeOf(prev) ELSE prev[i]]
         ELSE <<RootNodeOf(prev)>> \o prev
    ELSE <<>>

\* the edges after that effect
RootEffectEdges(prev, loc) == IF HasMetadata(loc) THEN prev ELSE <<>>

(* ---------------------------------------------------------------------- *)
(* Save payload                                                           *)
(* ---------------------------------------------------------------------- *)
\* the node as mapped into graphData.nodes
PersistNode(n) ==
    WireNode(n.id, n.type, n.position, n.text, n.cost, n.completed)

\* the edge as mapped into graphData.edges
PersistEdge(e) == Edge(e.id, e.source, e.target, e.text, e.completed)

\* graphData built from the nodes and edges the saveGraph closure captured
GraphData(cn, ce) ==
    LET kept == SeqFilter(cn, {n \in SeqToSet(cn) : n.id # RootId})
    IN  [nodes |-> [i \in DOMAIN kept |-> PersistNode(kept[i])],
         edges |-> [i \in DOMAIN ce |-> PersistEdge(ce[i])]]

(* ---------------------------------------------------------------------- *)
(* deleteNode                                                             *)
(* ---------------------------------------------------------------------- *)
\* targets of the edges leaving id
Children(id, currentEdges) ==
    {e.target : e \in {x \in SeqToSet(currentEdges) : x.source = id}}

RECURSIVE ReachFrom(_, _, _)
\* the ids reached from the frontier, seen collecting what was visited
ReachFrom(frontier, seen, currentEdges) ==
    IF frontier \subseteq seen THEN seen
    ELSE ReachFrom(UNION {Children(i, currentEdges) : i \in frontier},
                   seen \cup frontier, currentEdges)

\* the recursion of getDescendants never returns: a cycle is reachable from id
DescendantsDiverge(id, currentEdges) ==
    \E c \in ReachFrom({id}, {}, currentEdges) :
        c \in ReachFrom(Children(c, currentEdges), {}, currentEdges)

RECURSIVE GetDescendants(_, _)
\* getDescendants: the children and, recursively, their descendants
GetDescendants(id, currentEdges) ==
    LET children == Children(id, currentEdges)
    IN  children \cup
        UNION {GetDescendants(childId, currentEdges) : childId \in children}

\* toDelete = [nodeId, ...getDescendants(nodeId, edges)]
ToDelete(nodeId, currentEdges) ==
    {nodeId} \cup GetDescendants(nodeId, currentEdges)

\* prev.filter(node => !toDelete.includes(node.id))
DeleteNodes(prev, toDelete) ==
    SeqFilter(prev, {n \in SeqToSet(prev) : n.id \notin toDelete})

\* prev.filter(edge => !toDelete.includes(edge.source) && !toDelete.includes(edge.target))
DeleteEdges(prev, toDelete) ==
    SeqFilter(prev, {e \in SeqToSet(prev) :
                        e.source \notin toDelete /\ e.target \notin toDelete})

(* ---------------------------------------------------------------------- *)
(* State                                                                  *)
(* ---------------------------------------------------------------------- *)
VARIABLES
    nodes,              \* useNodesState: the node array of the store
    edges,              \* useEdgesState: the edge array of the store
    nodeCounter,        \* the id counter
    location,           \* "null", "empty" (no metadata) or "meta"
    saveStatus,         \* "saved", "saving" or "error"
    hasUnsavedChanges,  \* the dirty flag
    lastSaveAge,        \* Date.now() - lastSaveTimeRef.current, capped
    saveTimeout,        \* the timer held by saveTimeoutRef
    isSaving,           \* isSavingRef
    editingNodes,       \* editingNodesRef
    editingEdges,       \* editingEdgesRef
    saveQueue,          \* saveQueueRef
    pollingPaused,      \* pollingPausedRef
    timers,             \* pending setTimeout callbacks held by no ref (a bag)
    savesInFlight,      \* POST requests awaiting their response (a bag)
    fetchesInFlight,    \* GET requests awaiting their response
    remote,             \* the graph held by the remote store
    remoteLoc,          \* the location metadata held by the remote store
    cache,              \* the localStorage entry of the location, <<>> if none
    ops,                \* user and environment operations still allowed
    last,               \* the step just taken and what saveGraph did in it
    saveLog,            \* payload and store content at the last save execution
    sinceSaveEnd,       \* time since a remote write last completed, capped
    executions,         \* save executions begun so far
    failures,           \* remote writes failed so far
    scenarioClock,      \* time since the start of the timed request scenario
    unmounted,          \* the view was torn down
    fetchFailed,        \* ghost: a fetch has failed since the mount
    connectingNodeId    \* the node a connection gesture started on, or none

storeVars == <<nodes, edges, nodeCounter, location>>
editVars == <<editingNodes, editingEdges>>
saveVars == <<saveStatus, hasUnsavedChanges, saveTimeout, isSaving, saveQueue,
              pollingPaused, savesInFlight, saveLog, executions>>
clockVars == <<lastSaveAge, sinceSaveEnd>>
remoteVars == <<remote, remoteLoc, scenarioClock, failures, cache>>
vars == <<nodes, edges, nodeCounter, location, saveStatus, hasUnsavedChanges,
          lastSaveAge, saveTimeout, isSaving, editingNodes, editingEdges,
          saveQueue, pollingPaused, timers, savesInFlight, fetchesInFlight,
          remote, remoteLoc, cache, ops, last, saveLog, sinceSaveEnd, executions,
          failures, scenarioClock, unmounted, fetchFailed, connectingNodeId>>

(* ---------------------------------------------------------------------- *)
(* Bags of timers and of requests in flight                               *)
(* ---------------------------------------------------------------------- *)
EmptyBag == [x \in {} |-> 0]

BagAdd(B, x) ==
    [y \in DOMAIN B \cup {x} |->
        IF y \in DOMAIN B THEN (IF y = x THEN B[y] + 1 ELSE B[y]) ELSE 1]

BagRemove(B, x) ==
    [y \in {z \in DOMAIN B : z # x \/ B[z] > 1} |->
        IF y = x THEN B[y] - 1 ELSE B[y]]

\* saveTimeoutRef.current = null, or a timer that already ran
NoTimer == [kind |-> "none", left |-> 0, cn |-> <<>>, ce |-> <<>>]

\* setTimeout(() => saveGraph(false), delay) kept in saveTimeoutRef; the
\* callback calls the saveGraph closure that created it, with its nodes/edges
SaveTimer(kind, delay, cn, ce) ==
    [kind |-> kind, left |-> delay, cn |-> cn, ce |-> ce]

\* a setTimeout callback held by no ref
Timer(kind, delay, immediate, retryCount, cn, ce) ==
    [kind |-> kind, left |-> delay, immediate |-> immediate,
     retryCount |-> retryCount, cn |-> cn, ce |-> ce]

\* a POST in flight: the arguments and the closure of the saveGraph call
SaveCall(immediate, retryCount, cn, ce) ==
    [immediate |-> immediate, retryCount |-> retryCount, cn |-> cn, ce |-> ce]

\* Date.now() while the view is mounted: a session of the model lasts a few
\* seconds, which is nothing on the scale of the cache's 24 hours
DateNow == 2 * DAY_MS

\* a cache entry that loses the edges; the agreement of the cache with the
\* payload is expected to break under it
CacheEntryNoEdges(graphData, locData) ==
    <<[location |-> locData, graph |-> [graphData EXCEPT !.edges = <<>>],
       timestamp |-> DateNow]>>

\* storageData of saveGraphToLocalStorage, as localStorage then holds it
CacheEntry(graphData, locData) ==
    <<[location |-> locData, graph |-> graphData, timestamp |-> DateNow]>>

\* an item of localStorage is a string: the model holds the object it
\* parses to, or a record with the single field text for a string that does
\* not parse to an object ("garbage": JSON.parse throws; "null": it returns
\* null and data.timestamp throws)
JsonParseThrows(item) == "text" \in DOMAIN item

\* a reader that keeps an entry of exactly 24 hours; the age rule is
\* expected to break under it
LoadGraphFromLocalStorageLate(stored) ==
    IF stored = <<>>
    THEN [data |-> <<>>, storage |-> stored, age |-> 0]
    ELSE IF JsonParseThrows(stored[1])
    THEN [data |-> <<>>, storage |-> stored, age |-> 0]
    ELSE IF "timestamp" \notin DOMAIN stored[1]
    THEN [data |-> <<>>, storage |-> <<>>, age |-> 0]
    ELSE LET age == DateNow - stored[1].timestamp
         IN  IF age <= DAY_MS
             THEN [data |-> stored, storage |-> stored, age |-> age]
             ELSE [data |-> <<>>, storage |-> <<>>, age |-> age]

\* loadGraphFromLocalStorage: the value returned (<<>> for null), the item
\* left in localStorage and the age the read computed (0 when it computed
\* none). A thrown error is caught and logged, the item stays; an object
\* without timestamp has the age NaN, which is not under 24 hours, so the
\* item is removed
LoadGraphFromLocalStorage(stored) ==
    IF stored = <<>>
    THEN [data |-> <<>>, storage |-> stored, age |-> 0]
    ELSE IF JsonParseThrows(stored[1])
    THEN [data |-> <<>>, storage |-> stored, age |-> 0]
    ELSE IF "timestamp" \notin DOMAIN stored[1]
    THEN [data |-> <<>>, storage |-> <<>>, age |-> 0]
    ELSE LET age == DateNow - stored[1].timestamp
         IN  IF age < DAY_MS
             THEN [data |-> stored, storage |-> stored, age |-> age]
             ELSE [data |-> <<>>, storage |-> <<>>, age |-> age]

\* the argument recorded for a step that has none
NoArg == <<"none", 0>>

\* what the step did: the handler, its argument, and the branch saveGraph
\* took in it
Step(op, arg, save, immediate) ==
    [op |-> op, arg |-> arg, save |-> save, immediate |-> immediate]

\* editingNodesRef.current.size > 0 || editingEdgesRef.current.size > 0
HasActiveEdits(en, ee) == en # {} \/ ee # {}

(* ---------------------------------------------------------------------- *)
(* SaveScheduler: saveGraph                                               *)
(* ---------------------------------------------------------------------- *)
\* a queue test that never fires; the throttle scenario is expected to break
\* under it
MustQueueNever(immediate) == FALSE

\* isSavingRef.current && !immediate
MustQueue(immediate) == isSaving /\ ~immediate

\* an edit test that never fires; the edit deferral is expected to break
\* under it
MustDeferNever(immediate, editing) == FALSE

\* !immediate && (editingNodesRef.current.size > 0 || editingEdgesRef.current.size > 0)
MustDefer(immediate, editing) == ~immediate /\ editing

\* a throttle test that never fires; the throttle window is expected to break
\* under it
MustThrottleNever(immediate) == FALSE

\* !immediate && timeSinceLastSave < 1000
MustThrottle(immediate) == ~immediate /\ lastSaveAge < THROTTLE_MS

\* a state setter called after the view was torn down is ignored
SetState(new, old) == IF unmounted THEN old ELSE new

\* saveGraph(immediate, retryCount) up to its first await.  cn, ce are the
\* nodes and edges captured by the closure that runs; editing is the value
\* of the edit test; tmo is saveTimeoutRef as the call finds it; nowNodes,
\* nowEdges are the store content the step leaves.
SaveGraph(op, arg, immediate, retryCount, cn, ce, editing, tmo, nowNodes, nowEdges) ==
    IF MustQueue(immediate)
    THEN /\ saveQueue' = Append(saveQueue, [immediate |-> immediate,
                                            retryCount |-> retryCount])
         /\ saveTimeout' = tmo
         /\ last' = Step(op, arg, "queued", immediate)
         /\ UNCHANGED <<saveStatus, hasUnsavedChanges, isSaving,
                        pollingPaused, savesInFlight, saveLog, executions>>
    ELSE IF MustDefer(immediate, editing)
    THEN /\ saveTimeout' = SaveTimer("defer", EDIT_DEFER_MS, cn, ce)
         /\ last' = Step(op, arg, "deferred", immediate)
         /\ UNCHANGED <<saveStatus, hasUnsavedChanges, isSaving, saveQueue,
                        pollingPaused, savesInFlight, saveLog, executions>>
    ELSE IF MustThrottle(immediate)
    THEN /\ saveTimeout' = SaveTimer("throttle", THROTTLE_MS - lastSaveAge, cn, ce)
         /\ last' = Step(op, arg, "throttled", immediate)
         /\ UNCHANGED <<saveStatus, hasUnsavedChanges, isSaving, saveQueue,
                        pollingPaused, savesInFlight, saveLog, executions>>
    ELSE /\ saveTimeout' = NoTimer
         /\ isSaving' = TRUE
         /\ saveStatus' = SetState("saving", saveStatus)
         /\ hasUnsavedChanges' = SetState(FALSE, hasUnsavedChanges)
         /\ pollingPaused' = TRUE
         /\ savesInFlight' =
                BagAdd(savesInFlight, SaveCall(immediate, retryCount, cn, ce))
         /\ saveLog' = [payload |-> GraphData(cn, ce),
                        store |-> GraphData(nowNodes, nowEdges)]
         /\ executions' = executions + 1
         /\ last' = Step(op, arg, "executed", immediate)
         /\ UNCHANGED saveQueue

\* a step that does not call saveGraph
NoSave(op, arg) ==
    /\ last' = Step(op, arg, "none", FALSE)
    /\ UNCHANGED saveVars

(* ---------------------------------------------------------------------- *)
(* Initial state: the view is mounted, nothing is cached, and the fetch   *)
(* started by the mount effect is in flight                               *)
(* ---------------------------------------------------------------------- *)
N1 == NodeId(1)
N2 == NodeId(2)

RemoteNode(id, text) == WireNode(id, "outcomeNode", <<0, 0>>, text, "", FALSE)

RemoteEdge(s, t, text) == Edge(EdgeId(s, t), s, t, text, FALSE)

\* the graphs another client may have written to the remote store
RemoteSnapshots ==
    { [nodes |-> <<>>, edges |-> <<>>],
      [nodes |-> <<RemoteNode(N1, "r")>>,
       edges |-> <<RemoteEdge(RootId, N1, "")>>],
      [nodes |-> <<RemoteNode(N1, "s"), RemoteNode(N2, "r")>>,
       edges |-> <<RemoteEdge(RootId, N1, "x"), RemoteEdge(N1, N2, "")>>] }

\* useState(null) of connectingNodeId: no connection gesture is under way
NullNodeId == <<"none", 0>>

\* nothing saved, scheduled, edited or in flight yet
Quiet ==
    /\ saveStatus = "saved"
    /\ hasUnsavedChanges = FALSE
    /\ lastSaveAge = THROTTLE_MS
    /\ saveTimeout = NoTimer
    /\ isSaving = FALSE
    /\ editingNodes = {}
    /\ editingEdges = {}
    /\ saveQueue = <<>>
    /\ pollingPaused = FALSE
    /\ timers = EmptyBag
    /\ savesInFlight = EmptyBag
    /\ last = Step("init", NoArg, "none", FALSE)
    /\ saveLog = [payload |-> GraphData(<<>>, <<>>), store |-> GraphData(<<>>, <<>>)]
    /\ sinceSaveEnd = RESUME_DELAY_MS
    /\ executions = 0
    /\ failures = 0
    /\ scenarioClock = 0
    /\ unmounted = FALSE
    /\ fetchFailed = FALSE
    /\ connectingNodeId = NullNodeId

\* the view after mount, before any response arrived
Mounted ==
    /\ Quiet
    /\ nodes = <<>>
    /\ edges = <<>>
    /\ nodeCounter = 0
    /\ location = "null"
    /\ fetchesInFlight = 1
    /\ remote \in RemoteSnapshots
    /\ remoteLoc \in {"meta", "empty"}
    /\ cache = <<>>

\* the timed system: a location with metadata
Init ==
    /\ Mounted
    /\ remoteLoc = "meta"
    /\ ops = MaxOps

\* the reconciliation system: a location with or without metadata
InitSync ==
    /\ Mounted
    /\ ops = MaxSyncOps

(* ---------------------------------------------------------------------- *)
(* PollLoop: fetchData                                                    *)
(* ---------------------------------------------------------------------- *)
\* the two early returns of fetchData
PollSkipped ==
    \/ isSaving
    \/ pollingPaused
    \/ HasActiveEdits(editingNodes, editingEdges)

\* a tick of setInterval(fetchData, 10000), or fetchData called by a note
\* handler: up to the await of fetchLocationData
PollTick ==
    /\ ~unmounted
    /\ ops > 0
    /\ ops' = ops - 1
    /\ IF PollSkipped
       THEN /\ NoSave("pollSkipped", NoArg)
            /\ UNCHANGED fetchesInFlight
       ELSE /\ fetchesInFlight < MaxFetch
            /\ fetchesInFlight' = fetchesInFlight + 1
            /\ NoSave("fetchStart", NoArg)
    /\ UNCHANGED <<storeVars, editVars, clockVars, remoteVars, timers,
                   unmounted, fetchFailed, connectingNodeId>>

\* the response arrives: setLocation, processGraphData(data.graph, false),
\* then the root node effect when the location metadata changed; the cache
\* write follows in either case
FetchDone ==
    /\ fetchesInFlight > 0
    /\ fetchesInFlight' = fetchesInFlight - 1
    /\ IF unmounted
       THEN UNCHANGED storeVars
       ELSE /\ location' = remoteLoc
            /\ LET mergedNodes ==
                       MergeNodes(nodes, remote.nodes, editingNodes, FALSE)
                   mergedEdges ==
                       MergeEdges(edges, remote.edges, editingEdges, FALSE)
               IN  IF location' # location
                   THEN /\ nodes' = RootEffectNodes(mergedNodes, location')
                        /\ edges' = RootEffectEdges(mergedEdges, location')
                   ELSE /\ nodes' = mergedNodes
                        /\ edges' = mergedEdges
            /\ nodeCounter' =
                   MergeCounter(nodes, remote.nodes, nodeCounter, FALSE)
    /\ cache' = CacheEntry(remote, remoteLoc)
    /\ NoSave("fetchDone", NoArg)
    /\ UNCHANGED <<editVars, clockVars, remote, remoteLoc, scenarioClock,
                   failures, timers, ops, unmounted, fetchFailed,
                   connectingNodeId>>

\* a catch block that gives the loop up: it clears the interval and drops
\* the cached entry; the failed-fetch property is expected to break under it
FetchFailGivesUp ==
    /\ fetchesInFlight > 0
    /\ fetchesInFlight' = fetchesInFlight - 1
    /\ unmounted' = TRUE
    /\ cache' = <<>>
    /\ fetchFailed' = TRUE
    /\ NoSave("fetchFail", NoArg)
    /\ UNCHANGED <<storeVars, editVars, clockVars, remote, remoteLoc,
                   scenarioClock, failures, timers, ops, connectingNodeId>>

\* fetchLocationData throws: the catch block logs and the store is left alone
FetchFail ==
    /\ fetchesInFlight > 0
    /\ fetchesInFlight' = fetchesInFlight - 1
    /\ fetchFailed' = TRUE
    /\ NoSave("fetchFail", NoArg)
    /\ UNCHANGED <<storeVars, editVars, clockVars, remoteVars, timers, ops,
                   unmounted, connectingNodeId>>

\* the cleanup of the mount effect: clearInterval(interval)
Teardown ==
    /\ ~unmounted
    /\ unmounted' = TRUE
    /\ NoSave("teardown", NoArg)
    /\ UNCHANGED <<storeVars, editVars, clockVars, remoteVars, timers,
                   fetchesInFlight, ops, fetchFailed, connectingNodeId>>

\* another client overwrites the remote graph
RemoteChange ==
    /\ ops > 0
    /\ ops' = ops - 1
    /\ \E g \in RemoteSnapshots : g # remote /\ remote' = g
    /\ UNCHANGED <<remoteLoc, scenarioClock, failures, cache>>
    /\ NoSave("remoteChange", NoArg)
    /\ UNCHANGED <<storeVars, editVars, clockVars, timers, fetchesInFlight,
                   unmounted, fetchFailed, connectingNodeId>>

(* ---------------------------------------------------------------------- *)
(* EditingTracker and node callbacks                                      *)
(* ---------------------------------------------------------------------- *)
NodeIds(ns) == {ns[i].id : i \in DOMAIN ns}

\* the graph section with the canvas is rendered: hasLocationData
CanvasShown == ~unmounted /\ HasMetadata(location)

EdgeIds(es) == {es[i].id : i \in DOMAIN es}

\* prev.map(node => node.id === nodeId ? {...node, isEditing} : node)
SetEditing(prev, nodeId, isEditing) ==
    [i \in DOMAIN prev |->
        IF prev[i].id = nodeId THEN [prev[i] EXCEPT !.isEditing = isEditing]
        ELSE prev[i]]

\* prev.map(node => node.id === nodeId ? {...node, text} : node)
SetText(prev, nodeId, text) ==
    [i \in DOMAIN prev |->
        IF prev[i].id = nodeId THEN [prev[i] EXCEPT !.text = text] ELSE prev[i]]

\* prev.map(node => node.id === nodeId ? {...node, completed: !completed} : node)
ToggleCompleted(prev, nodeId) ==
    [i \in DOMAIN prev |->
        IF prev[i].id = nodeId THEN [prev[i] EXCEPT !.completed = ~@]
        ELSE prev[i]]

\* startEditingNode, called by a double click on an outcome node
StartEditingNode(nodeId) ==
    /\ CanvasShown
    /\ connectingNodeId = NullNodeId
    /\ ops > 0
    /\ ops' = ops - 1
    /\ nodeId \in NodeIds(nodes) \ {RootId}
    /\ editingNodes' = editingNodes \cup {nodeId}
    /\ nodes' = SetEditing(nodes, nodeId, TRUE)
    /\ saveTimeout' = NoTimer
    /\ last' = Step("startEditingNode", nodeId, "none", FALSE)
    /\ UNCHANGED <<edges, nodeCounter, location, editingEdges, saveStatus,
                   hasUnsavedChanges, isSaving, saveQueue, pollingPaused,
                   savesInFlight, saveLog, executions, clockVars, remoteVars, timers,
                   fetchesInFlight, unmounted, fetchFailed, connectingNodeId>>

\* updateNodeText, called by the input of a node under edit
UpdateNodeText(nodeId, text) ==
    /\ CanvasShown
    /\ ops > 0
    /\ ops' = ops - 1
    /\ \E i \in DOMAIN nodes :
           nodes[i].id = nodeId /\ nodes[i].isEditing /\ nodes[i].text # text
    /\ nodes' = SetText(nodes, nodeId, text)
    /\ NoSave("updateNodeText", nodeId)
    /\ UNCHANGED <<edges, nodeCounter, location, editVars, clockVars,
                   remoteVars, timers, fetchesInFlight, unmounted, fetchFailed,
                   connectingNodeId>>

\* endEditingNode, called when the input of a node under edit is left
EndEditingNode(nodeId) ==
    /\ CanvasShown
    /\ \E i \in DOMAIN nodes : nodes[i].id = nodeId /\ nodes[i].isEditing
    /\ editingNodes' = editingNodes \ {nodeId}
    /\ nodes' = SetEditing(nodes, nodeId, FALSE)
    /\ timers' = BagAdd(timers, Timer("settle", SETTLE_DELAY_MS, FALSE, 0, <<>>, <<>>))
    /\ NoSave("endEditingNode", nodeId)
    /\ UNCHANGED <<edges, nodeCounter, location, editingEdges, clockVars,
                   remoteVars, fetchesInFlight, ops, unmounted, fetchFailed,
                   connectingNodeId>>

\* toggleNodeComplete: the save is requested before the next render, so
\* saveGraphRef holds the closure over the nodes and edges of the last render
ToggleNodeComplete(nodeId) ==
    /\ CanvasShown
    /\ connectingNodeId = NullNodeId
    /\ ops > 0
    /\ ops' = ops - 1
    /\ nodeId \in NodeIds(nodes) \ {RootId}
    /\ nodes' = ToggleCompleted(nodes, nodeId)
    /\ SaveGraph("toggleNodeComplete", nodeId, FALSE, 0, nodes, edges,
                 HasActiveEdits(editingNodes, editingEdges), saveTimeout,
                 nodes', edges)
    /\ UNCHANGED <<edges, nodeCounter, location, editVars, clockVars,
                   remoteVars, timers, fetchesInFlight, unmounted, fetchFailed,
                   connectingNodeId>>

\* deleteNode after the confirmation; a cyclic descendant walk never returns
\* and the handler ends with a RangeError before any update
DeleteNode(nodeId) ==
    /\ CanvasShown
    /\ connectingNodeId = NullNodeId
    /\ ops > 0
    /\ ops' = ops - 1
    /\ nodeId \in NodeIds(nodes) \ {RootId}
    /\ IF DescendantsDiverge(nodeId, edges)
       THEN /\ NoSave("deleteNodeThrew", nodeId)
            /\ UNCHANGED <<nodes, edges, timers>>
       ELSE /\ nodes' = DeleteNodes(nodes, ToDelete(nodeId, edges))
            /\ edges' = DeleteEdges(edges, ToDelete(nodeId, edges))
            /\ hasUnsavedChanges' = TRUE
            /\ timers' = BagAdd(timers,
                                Timer("delete", DELETE_DELAY_MS, TRUE, 0, <<>>, <<>>))
            /\ last' = Step("deleteNode", nodeId, "none", FALSE)
            /\ UNCHANGED <<saveStatus, saveTimeout, isSaving, saveQueue,
                           pollingPaused, savesInFlight, saveLog, executions>>
    /\ UNCHANGED <<nodeCounter, location, editVars, clockVars, remoteVars,
                   fetchesInFlight, unmounted, fetchFailed, connectingNodeId>>

\* onConnectStart: the user starts to drag a connection out of a node
\* (while the drag lasts the pointer is busy: no click or double click)
OnConnectStart(nodeId) ==
    /\ CanvasShown
    /\ ops > 0
    /\ ops' = ops - 1
    /\ nodeId \in NodeIds(nodes)
    /\ connectingNodeId = NullNodeId
    /\ connectingNodeId' = nodeId
    /\ NoSave("onConnectStart", nodeId)
    /\ UNCHANGED <<storeVars, editVars, clockVars, remoteVars, timers,
                   fetchesInFlight, unmounted, fetchFailed>>

\* onConnectEnd of the gesture started on sourceNodeId: released on the
\* empty canvas (onPane) it adds a node and an edge and calls triggerSave,
\* released on a node it only resets connectingNodeId
OnConnectEnd(sourceNodeId, onPane) ==
    /\ CanvasShown
    /\ connectingNodeId = sourceNodeId
    /\ sourceNodeId # NullNodeId
    /\ connectingNodeId' = NullNodeId
    /\ IF onPane
       THEN /\ nodeCounter <= MaxNodeNum
            /\ LET newNodeId == NodeId(nodeCounter)
                   newNode == StoreNode(newNodeId, "outcomeNode", <<1, 1>>,
                                        "", "", FALSE, FALSE)
                   newEdge == Edge(EdgeId(sourceNodeId, newNodeId),
                                   sourceNodeId, newNodeId, "", FALSE)
               IN  /\ nodes' = Append(nodes, newNode)
                   /\ edges' = Append(edges, newEdge)
            /\ nodeCounter' = nodeCounter + 1
            /\ SaveGraph("onConnectEnd", sourceNodeId, FALSE, 0, nodes, edges,
                         HasActiveEdits(editingNodes, editingEdges),
                         saveTimeout, nodes', edges')
       ELSE /\ NoSave("onConnectEndOnNode", sourceNodeId)
            /\ UNCHANGED <<nodes, edges, nodeCounter>>
    /\ UNCHANGED <<location, editVars, clockVars, remoteVars, timers,
                   fetchesInFlight, ops, unmounted, fetchFailed>>

\* the gesture started on sourceNodeId is released on a handle of another
\* node: onConnect, then onConnectEnd, which only resets connectingNodeId.
\* onConnect increments the counter, returns when the source is not in the
\* store, and otherwise adds a new node below the source and an edge to
\* it; it requests no save
OnConnect(sourceNodeId) ==
    /\ CanvasShown
    /\ connectingNodeId = sourceNodeId
    /\ sourceNodeId # NullNodeId
    /\ connectingNodeId' = NullNodeId
    /\ NodeIds(nodes) \ {sourceNodeId} # {}
    /\ nodeCounter <= MaxNodeNum
    /\ nodeCounter' = nodeCounter + 1
    /\ IF FindById(nodes, sourceNodeId) = <<>>
       THEN UNCHANGED <<nodes, edges>>
       ELSE LET newNodeId == NodeId(nodeCounter)
                newNode == StoreNode(newNodeId, "outcomeNode", <<2, 2>>,
                                     "", "", FALSE, FALSE)
                newEdge == Edge(EdgeId(sourceNodeId, newNodeId),
                                sourceNodeId, newNodeId, "", FALSE)
            IN  /\ nodes' = Append(nodes, newNode)
                /\ edges' = Append(edges, newEdge)
    /\ NoSave("onConnect", sourceNodeId)
    /\ UNCHANGED <<location, editVars, clockVars, remoteVars, timers,
                   fetchesInFlight, ops, unmounted, fetchFailed>>

\* onEdgeDoubleClick
OnEdgeDoubleClick(edgeId) ==
    /\ CanvasShown
    /\ connectingNodeId = NullNodeId
    /\ ops > 0
    /\ ops' = ops - 1
    /\ edgeId \in EdgeIds(edges)
    /\ editingEdges' = editingEdges \cup {edgeId}
    /\ NoSave("onEdgeDoubleClick", edgeId)
    /\ UNCHANGED <<storeVars, editingNodes, clockVars, remoteVars, timers,
                   fetchesInFlight, unmounted, fetchFailed, connectingNodeId>>

\* the input of an edge label loses focus: the label built by
\* processGraphData, onConnect or onConnectEnd calls setEditingEdge(null),
\* which touches neither editingEdgesRef nor the scheduler
EndEditingEdge(edgeId) ==
    /\ CanvasShown
    /\ edgeId \in EdgeIds(edges)
    /\ edgeId \in editingEdges
    /\ NoSave("endEditingEdge", edgeId)
    /\ UNCHANGED <<storeVars, editVars, clockVars, remoteVars, timers,
                   fetchesInFlight, ops, unmounted, fetchFailed,
                   connectingNodeId>>

(* ---------------------------------------------------------------------- *)
(* Timer callbacks                                                        *)
(* ---------------------------------------------------------------------- *)
DueTimers(kind) == {t \in DOMAIN timers : t.kind = kind /\ t.left = 0}

\* setTimeout(() => { pollingPausedRef.current = false }, 1000)
ResumePolling ==
    \E t \in DueTimers("resume") :
        /\ timers' = BagRemove(timers, t)
        /\ pollingPaused' = FALSE
        /\ last' = Step("resumePolling", NoArg, "none", FALSE)
        /\ UNCHANGED <<storeVars, editVars, clockVars, remoteVars,
                       fetchesInFlight, ops, saveStatus, hasUnsavedChanges,
                       saveTimeout, isSaving, saveQueue, savesInFlight, saveLog,
                       executions, unmounted, fetchFailed, connectingNodeId>>

\* setTimeout(() => triggerSave(), 200): saveGraphRef holds the latest closure
SettleFire ==
    \E t \in DueTimers("settle") :
        /\ timers' = BagRemove(timers, t)
        /\ SaveGraph("settleFire", NoArg, FALSE, 0, nodes, edges,
                     HasActiveEdits(editingNodes, editingEdges), saveTimeout,
                     nodes, edges)
        /\ UNCHANGED <<storeVars, editVars, clockVars, remoteVars,
                       fetchesInFlight, ops, unmounted, fetchFailed,
                       connectingNodeId>>

\* setTimeout(() => triggerImmediateSave(), 300)
DeleteSaveFire ==
    \E t \in DueTimers("delete") :
        /\ timers' = BagRemove(timers, t)
        /\ SaveGraph("deleteSaveFire", NoArg, TRUE, 0, nodes, edges,
                     HasActiveEdits(editingNodes, editingEdges), saveTimeout,
                     nodes, edges)
        /\ UNCHANGED <<storeVars, editVars, clockVars, remoteVars,
                       fetchesInFlight, ops, unmounted, fetchFailed,
                       connectingNodeId>>

\* setTimeout(() => saveGraph(queued.immediate, queued.retryCount), 100)
QueueFire ==
    \E t \in DueTimers("queue") :
        /\ timers' = BagRemove(timers, t)
        /\ SaveGraph("queueFire", NoArg, t.immediate, t.retryCount, t.cn, t.ce,
                     HasActiveEdits(editingNodes, editingEdges), saveTimeout,
                     nodes, edges)
        /\ UNCHANGED <<storeVars, editVars, clockVars, remoteVars,
                       fetchesInFlight, ops, unmounted, fetchFailed,
                       connectingNodeId>>

\* setTimeout(() => saveGraph(true, retryCount + 1), 1000 * (retryCount + 1))
RetryFire ==
    \E t \in DueTimers("retry") :
        /\ timers' = BagRemove(timers, t)
        /\ SaveGraph("retryFire", NoArg, t.immediate, t.retryCount, t.cn, t.ce,
                     HasActiveEdits(editingNodes, editingEdges), saveTimeout,
                     nodes, edges)
        /\ UNCHANGED <<storeVars, editVars, clockVars, remoteVars,
                       fetchesInFlight, ops, unmounted, fetchFailed,
                       connectingNodeId>>

\* the timer of saveTimeoutRef runs saveGraph(false) of the closure that set it
SaveTimeoutFire ==
    /\ saveTimeout.kind # "none"
    /\ saveTimeout.left = 0
    /\ SaveGraph("saveTimeoutFire", NoArg, FALSE, 0, saveTimeout.cn, saveTimeout.ce,
                 HasActiveEdits(editingNodes, editingEdges), NoTimer,
                 nodes, edges)
    /\ UNCHANGED <<storeVars, editVars, clockVars, remoteVars, timers,
                   fetchesInFlight, ops, unmounted, fetchFailed,
                   connectingNodeId>>

\* the time until the next timer is due or the next window ends; 0 when
\* nothing waits for time to pass
NextInstant ==
    LET waits ==
            {t.left : t \in DOMAIN timers}
            \cup (IF saveTimeout.kind # "none" THEN {saveTimeout.left} ELSE {})
            \cup (IF lastSaveAge < THROTTLE_MS
                  THEN {THROTTLE_MS - lastSaveAge} ELSE {})
            \cup (IF sinceSaveEnd < RESUME_DELAY_MS
                  THEN {RESUME_DELAY_MS - sinceSaveEnd} ELSE {})
    IN  IF waits = {} THEN 0 ELSE CHOOSE d \in waits : \A e \in waits : d <= e

\* d units of time pass: every pending timer comes d closer, Date.now() grows
TickBy(d) ==
    /\ d > 0
    /\ \A t \in DOMAIN timers : t.left >= d
    /\ saveTimeout.kind # "none" => saveTimeout.left >= d
    /\ timers' = [t \in {[u EXCEPT !.left = @ - d] : u \in DOMAIN timers} |->
                     timers[[t EXCEPT !.left = @ + d]]]
    /\ saveTimeout' = IF saveTimeout.kind = "none" THEN saveTimeout
                      ELSE [saveTimeout EXCEPT !.left = @ - d]
    /\ lastSaveAge' = IF lastSaveAge + d < THROTTLE_MS THEN lastSaveAge + d
                      ELSE THROTTLE_MS
    /\ sinceSaveEnd' = IF sinceSaveEnd + d < RESUME_DELAY_MS THEN sinceSaveEnd + d
                       ELSE RESUME_DELAY_MS
    /\ last' = Step("tick", NoArg, "none", FALSE)
    /\ UNCHANGED <<storeVars, editVars, remote, remoteLoc, failures, cache,
                   fetchesInFlight, ops, saveStatus, hasUnsavedChanges, isSaving,
                   saveQueue, pollingPaused, savesInFlight, saveLog, executions,
                   unmounted, fetchFailed, connectingNodeId>>

\* time passes until the next instant at which a timer is due or a window
\* ends: the user and the network act at these instants; a timer that is
\* due runs before time passes
Tick ==
    /\ TickBy(NextInstant)
    /\ UNCHANGED scenarioClock

(* ---------------------------------------------------------------------- *)
(* Completion of a remote write                                           *)
(* ---------------------------------------------------------------------- *)
\* the finally block of saveGraph
AfterSave(ts) == BagAdd(ts, Timer("resume", RESUME_DELAY_MS, FALSE, 0, <<>>, <<>>))

\* response.ok: the remote store now holds the payload
SaveDone ==
    \E c \in DOMAIN savesInFlight :
        /\ savesInFlight' = BagRemove(savesInFlight, c)
        /\ remote' = GraphData(c.cn, c.ce)
        /\ cache' = CacheEntry(GraphData(c.cn, c.ce), location)
        /\ lastSaveAge' = 0
        /\ saveStatus' = SetState("saved", saveStatus)
        /\ IF Len(saveQueue) > 0
           THEN /\ saveQueue' = Tail(saveQueue)
                /\ timers' = AfterSave(BagAdd(timers,
                       Timer("queue", QUEUE_DELAY_MS, Head(saveQueue).immediate,
                             Head(saveQueue).retryCount, c.cn, c.ce)))
           ELSE /\ saveQueue' = saveQueue
                /\ timers' = AfterSave(timers)
        /\ isSaving' = FALSE
        /\ sinceSaveEnd' = 0
        /\ last' = Step("saveDone", NoArg, "none", c.immediate)
        /\ UNCHANGED <<storeVars, editVars, remoteLoc, scenarioClock, failures,
                       fetchesInFlight, ops, hasUnsavedChanges, saveTimeout,
                       pollingPaused, saveLog, executions, unmounted, fetchFailed,
                       connectingNodeId>>

\* immediate && retryCount < 3
MayRetry(immediate, retryCount) == immediate /\ retryCount < MAX_RETRY

\* the fetch throws or the response is not ok: the catch block
SaveFail ==
    \E c \in DOMAIN savesInFlight :
        /\ savesInFlight' = BagRemove(savesInFlight, c)
        /\ saveStatus' = SetState("error", saveStatus)
        /\ IF MayRetry(c.immediate, c.retryCount)
           THEN /\ timers' = AfterSave(BagAdd(timers,
                       Timer("retry", RETRY_BASE_MS * (c.retryCount + 1), TRUE,
                             c.retryCount + 1, c.cn, c.ce)))
                /\ UNCHANGED hasUnsavedChanges
           ELSE /\ timers' = AfterSave(timers)
                /\ hasUnsavedChanges' = SetState(TRUE, hasUnsavedChanges)
        /\ isSaving' = FALSE
        /\ sinceSaveEnd' = 0
        /\ failures' = failures + 1
        /\ last' = Step("saveFail", NoArg, "none", c.immediate)
        /\ UNCHANGED <<storeVars, editVars, remote, remoteLoc, scenarioClock,
                       cache, fetchesInFlight, ops, lastSaveAge, saveTimeout, saveQueue,
                       pollingPaused, saveLog, executions, unmounted, fetchFailed,
                       connectingNodeId>>

(* ---------------------------------------------------------------------- *)
(* The timed system: save scheduler, poll loop, edits                     *)
(* ---------------------------------------------------------------------- *)
Texts == {"a"}

NodeUniverse == {RootId} \cup {NodeId(n) : n \in 0..(MaxNodeNum + 1)}

EdgeUniverse == {EdgeId(a, b) : a, b \in NodeUniverse}

Next ==
    \/ PollTick
    \/ FetchDone
    \/ FetchFail
    \/ \E id \in NodeUniverse : StartEditingNode(id)
    \/ \E id \in NodeUniverse : EndEditingNode(id)
    \/ \E id \in NodeUniverse : ToggleNodeComplete(id)
    \/ \E id \in NodeUniverse : DeleteNode(id)
    \/ \E id \in NodeUniverse : OnConnectStart(id)
    \/ \E id \in NodeUniverse, onPane \in BOOLEAN : OnConnectEnd(id, onPane)
    \/ ResumePolling
    \/ SettleFire
    \/ DeleteSaveFire
    \/ QueueFire
    \/ RetryFire
    \/ SaveTimeoutFire
    \/ Tick
    \/ SaveDone
    \/ SaveFail

Spec == Init /\ [][Next]_vars

(* ---------------------------------------------------------------------- *)
(* The reconciliation system: poll loop, remote changes, edits            *)
(* ---------------------------------------------------------------------- *)
NextSync ==
    \/ PollTick
    \/ FetchDone
    \/ FetchFail
    \/ RemoteChange
    \/ \E id \in NodeUniverse : StartEditingNode(id)
    \/ \E id \in NodeUniverse, text \in Texts : UpdateNodeText(id, text)
    \/ \E id \in NodeUniverse : EndEditingNode(id)
    \/ \E id \in EdgeUniverse : OnEdgeDoubleClick(id)
    \/ ResumePolling
    \/ SettleFire
    \/ QueueFire
    \/ SaveTimeoutFire
    \/ Tick
    \/ SaveDone
    \/ SaveFail

SpecSync == InitSync /\ [][NextSync]_vars

(* ---------------------------------------------------------------------- *)
(* deleteNode on drawn stores                                             *)
(* ---------------------------------------------------------------------- *)
StoreIds == {RootId} \cup {NodeId(n) : n \in 1..MaxStoreNum}

\* the store ids in array order
StoreIdSeq == <<RootId>> \o [n \in 1..MaxStoreNum |-> NodeId(n)]

\* the ordered pairs of distinct store ids in array order
StorePairSeq ==
    LET n == Len(StoreIdSeq)
        all == [k \in 1..(n * n) |->
                   <<StoreIdSeq[((k - 1) \div n) + 1], StoreIdSeq[((k - 1) % n) + 1]>>]
    IN  SeqFilter(all, {q \in SeqToSet(all) : q[1] # q[2]})

DrawnNode(id) ==
    StoreNode(id, IF id = RootId THEN "rootNode" ELSE "outcomeNode", <<0, 0>>,
              "", "", FALSE, FALSE)

DrawnEdge(q) == Edge(EdgeId(q[1], q[2]), q[1], q[2], "", FALSE)

\* a store as a remote snapshot can leave it: any nodes, any edges
InitStore ==
    /\ Quiet
    /\ nodeCounter = MaxStoreNum + 1
    /\ location = "meta"
    /\ fetchesInFlight = 0
    /\ remote = [nodes |-> <<>>, edges |-> <<>>]
    /\ remoteLoc = "meta"
    /\ \E ids \in SUBSET StoreIds :
           LET drawn == SeqFilter(StoreIdSeq, ids)
           IN  nodes = [i \in DOMAIN drawn |-> DrawnNode(drawn[i])]
    /\ \E pairs \in SUBSET SeqToSet(StorePairSeq) :
           LET drawn == SeqFilter(StorePairSeq, pairs)
           IN  edges = [i \in DOMAIN drawn |-> DrawnEdge(drawn[i])]
    /\ cache = CacheEntry(GraphData(nodes, edges), location)
    /\ ops = MaxStoreOps

NextStore ==
    \/ \E id \in StoreIds : DeleteNode(id)
    \/ DeleteSaveFire
    \/ Tick

SpecStore == InitStore /\ [][NextStore]_vars

(* ---------------------------------------------------------------------- *)
(* The throttle scenario: non-immediate requests at fixed times           *)
(* ---------------------------------------------------------------------- *)
\* the request times of the scenario: t = 0, 0.2 s and 0.5 s
RequestTimes == <<0, 2, 5>>

\* the time of the next request of the scenario
NextRequestTime == RequestTimes[Len(RequestTimes) - ops + 1]

\* the first fetch answered with one node below the root; nothing was saved
\* or requested yet
InitThrottle ==
    /\ Quiet
    /\ nodes = RootEffectNodes(
                   MergeNodes(<<>>, <<RemoteNode(N1, "r")>>, {}, FALSE), "meta")
    /\ edges = MergeEdges(<<>>, <<RemoteEdge(RootId, N1, "")>>, {}, FALSE)
    /\ nodeCounter = MergeCounter(<<>>, <<RemoteNode(N1, "r")>>, 0, FALSE)
    /\ location = "meta"
    /\ fetchesInFlight = 0
    /\ remote = [nodes |-> <<RemoteNode(N1, "r")>>,
                 edges |-> <<RemoteEdge(RootId, N1, "")>>]
    /\ remoteLoc = "meta"
    /\ cache = CacheEntry(remote, remoteLoc)
    /\ ops = Len(RequestTimes)

\* the user toggles the completion of the node at the next request time
ScenarioRequest ==
    /\ ops > 0
    /\ scenarioClock = NextRequestTime
    /\ ToggleNodeComplete(N1)

\* 100 ms pass; a request that is due is made first
ScenarioTick ==
    /\ scenarioClock < MaxScenarioTime
    /\ ops > 0 => scenarioClock < NextRequestTime
    /\ TickBy(1)
    /\ scenarioClock' = scenarioClock + 1

NextThrottle ==
    \/ ScenarioRequest
    \/ ScenarioTick
    \/ ResumePolling
    \/ QueueFire
    \/ SaveTimeoutFire
    \/ SaveDone
    \/ SaveFail

SpecThrottle == InitThrottle /\ [][NextThrottle]_vars

(* ---------------------------------------------------------------------- *)
(* The retry system: saves, their failures and their retries              *)
(* ---------------------------------------------------------------------- *)
\* the first fetch answered with one node below the root; nothing was saved
\* or requested yet
InitRetry ==
    /\ Quiet
    /\ nodes = RootEffectNodes(
                   MergeNodes(<<>>, <<RemoteNode(N1, "r")>>, {}, FALSE), "meta")
    /\ edges = MergeEdges(<<>>, <<RemoteEdge(RootId, N1, "")>>, {}, FALSE)
    /\ nodeCounter = MergeCounter(<<>>, <<RemoteNode(N1, "r")>>, 0, FALSE)
    /\ location = "meta"
    /\ fetchesInFlight = 0
    /\ remote = [nodes |-> <<RemoteNode(N1, "r")>>,
                 edges |-> <<RemoteEdge(RootId, N1, "")>>]
    /\ remoteLoc = "meta"
    /\ cache = CacheEntry(remote, remoteLoc)
    /\ ops = MaxRetryOps

NextRetry ==
    \/ \E id \in NodeUniverse : ToggleNodeComplete(id)
    \/ \E id \in NodeUniverse : DeleteNode(id)
    \/ ResumePolling
    \/ DeleteSaveFire
    \/ QueueFire
    \/ RetryFire
    \/ SaveTimeoutFire
    \/ Tick
    \/ SaveDone
    \/ SaveFail

SpecRetry == InitRetry /\ [][NextRetry]_vars

(* ---------------------------------------------------------------------- *)
(* Reconciliation on drawn stores: two responses in flight, a cached      *)
(* entry, and the handlers that fill the EditSets                         *)
(* ---------------------------------------------------------------------- *)
\* the edges a drawn store or snapshot may hold, in array order
MergePairSeq == <<<<RootId, N1>>, <<RootId, N2>>, <<N1, N2>>>>

\* the pairs whose two ends are the root or among ids
PairsWithin(ids) ==
    {q \in SeqToSet(MergePairSeq) : {q[1], q[2]} \subseteq ids \cup {RootId}}

\* the graphs a client may have drawn: outcome nodes, and edges between the
\* root and those nodes
DrawnGraphs ==
    UNION { { [ids |-> SeqFilter(<<N1, N2>>, ids),
               pairs |-> SeqFilter(MergePairSeq, pairs)] :
                  pairs \in SUBSET PairsWithin(ids) } :
            ids \in SUBSET {N1, N2} }

\* the snapshots the remote store may hold
MergeSnapshots ==
    { [nodes |-> [i \in DOMAIN g.ids |-> RemoteNode(g.ids[i], "r")],
       edges |-> [i \in DOMAIN g.pairs |->
                     RemoteEdge(g.pairs[i][1], g.pairs[i][2], "r")]] :
          g \in DrawnGraphs }

\* the graph of the cached entry
CachedGraph ==
    [nodes |-> <<RemoteNode(N1, "c")>>, edges |-> <<RemoteEdge(RootId, N1, "c")>>]

\* cachedData.graph, with the value that makes processGraphData return at
\* once (!graphData) when the entry has no graph
NoGraph == [nodes |-> <<>>, edges |-> <<>>, missing |-> TRUE]

CachedGraphData(data) ==
    IF "graph" \in DOMAIN data THEN data.graph ELSE NoGraph

\* cachedData.location; setLocation(undefined) leaves no metadata
CachedLocation(data) ==
    IF "location" \in DOMAIN data THEN data.location ELSE "null"

\* the mount effect: the cached entry, if any, is loaded with
\* isFromLocalStorage = true, then fetchData is called
LoadCache ==
    /\ ~unmounted
    /\ ops > 0
    /\ ops' = ops - 1
    /\ LET read == LoadGraphFromLocalStorage(cache)
           cachedData == read.data
       IN  /\ cache' = read.storage
           /\ IF cachedData = <<>>
              THEN /\ UNCHANGED storeVars
                   /\ NoSave("loadCache", <<"miss", read.age>>)
              ELSE /\ location' = CachedLocation(cachedData[1])
                   /\ LET graph == CachedGraphData(cachedData[1])
                          mergedNodes ==
                              MergeNodes(nodes, graph.nodes, editingNodes, TRUE)
                          mergedEdges ==
                              MergeEdges(edges, graph.edges, editingEdges, TRUE)
                          processedNodes ==
                              IF graph = NoGraph THEN nodes ELSE mergedNodes
                          processedEdges ==
                              IF graph = NoGraph THEN edges ELSE mergedEdges
                      IN  /\ IF location' # location
                             THEN /\ nodes' =
                                         RootEffectNodes(processedNodes, location')
                                  /\ edges' =
                                         RootEffectEdges(processedEdges, location')
                             ELSE /\ nodes' = processedNodes
                                  /\ edges' = processedEdges
                          /\ nodeCounter' =
                                 IF graph = NoGraph THEN nodeCounter
                                 ELSE MergeCounter(nodes, graph.nodes,
                                                   nodeCounter, TRUE)
                   /\ NoSave("loadCache", <<"hit", read.age>>)
    /\ fetchesInFlight' = IF PollSkipped THEN fetchesInFlight
                          ELSE fetchesInFlight + 1
    /\ UNCHANGED <<editVars, clockVars, remote, remoteLoc, scenarioClock,
                   failures, timers, unmounted, fetchFailed,
                   connectingNodeId>>

\* a store with its root and a drawn graph, two responses of the poll loop
\* in flight
InitMerge ==
    /\ Quiet
    /\ nodeCounter = MaxStoreNum + 1
    /\ location = "meta"
    /\ fetchesInFlight = 2
    /\ remote \in MergeSnapshots
    /\ remoteLoc = "meta"
    /\ \E g \in DrawnGraphs :
           LET drawn == <<RootId>> \o g.ids
           IN  /\ nodes = [i \in DOMAIN drawn |-> DrawnNode(drawn[i])]
               /\ edges = [i \in DOMAIN g.pairs |-> DrawnEdge(g.pairs[i])]
    /\ cache \in {<<>>, CacheEntry(CachedGraph, "meta")}
    /\ ops = MaxMergeOps

NextMerge ==
    \/ FetchDone
    \/ LoadCache
    \/ \E id \in StoreIds : StartEditingNode(id)
    \/ \E id \in EdgeUniverse : OnEdgeDoubleClick(id)
    \/ \E id \in StoreIds : DeleteNode(id)

SpecMerge == InitMerge /\ [][NextMerge]_vars

(* ---------------------------------------------------------------------- *)
(* Edits of nodes and edge labels on a loaded graph                       *)
(* ---------------------------------------------------------------------- *)
\* the first fetch answered with one node below the root; no edit yet
InitEdit ==
    /\ Quiet
    /\ nodes = RootEffectNodes(
                   MergeNodes(<<>>, <<RemoteNode(N1, "r")>>, {}, FALSE), "meta")
    /\ edges = MergeEdges(<<>>, <<RemoteEdge(RootId, N1, "")>>, {}, FALSE)
    /\ nodeCounter = MergeCounter(<<>>, <<RemoteNode(N1, "r")>>, 0, FALSE)
    /\ location = "meta"
    /\ fetchesInFlight = 0
    /\ remote = [nodes |-> <<RemoteNode(N1, "r")>>,
                 edges |-> <<RemoteEdge(RootId, N1, "")>>]
    /\ remoteLoc = "meta"
    /\ cache = CacheEntry(remote, remoteLoc)
    /\ ops = MaxEditOps

NextEdit ==
    \/ PollTick
    \/ FetchDone
    \/ \E id \in NodeUniverse : StartEditingNode(id)
    \/ \E id \in NodeUniverse, text \in Texts : UpdateNodeText(id, text)
    \/ \E id \in NodeUniverse : EndEditingNode(id)
    \/ \E id \in EdgeUniverse : OnEdgeDoubleClick(id)
    \/ \E id \in EdgeUniverse : EndEditingEdge(id)
    \/ ResumePolling
    \/ SettleFire
    \/ QueueFire
    \/ SaveTimeoutFire
    \/ Tick
    \/ SaveDone

SpecEdit == InitEdit /\ [][NextEdit]_vars

(* ---------------------------------------------------------------------- *)
(* Deferred saves under fair scheduling: a timer that is due fires, a     *)
(* request in flight is answered, and time passes                         *)
(* ---------------------------------------------------------------------- *)
\* the first fetch answered with one node below the root
InitDefer ==
    /\ Quiet
    /\ nodes = RootEffectNodes(
                   MergeNodes(<<>>, <<RemoteNode(N1, "r")>>, {}, FALSE), "meta")
    /\ edges = MergeEdges(<<>>, <<RemoteEdge(RootId, N1, "")>>, {}, FALSE)
    /\ nodeCounter = MergeCounter(<<>>, <<RemoteNode(N1, "r")>>, 0, FALSE)
    /\ location = "meta"
    /\ fetchesInFlight = 0
    /\ remote = [nodes |-> <<RemoteNode(N1, "r")>>,
                 edges |-> <<RemoteEdge(RootId, N1, "")>>]
    /\ remoteLoc = "meta"
    /\ cache = CacheEntry(remote, remoteLoc)
    /\ ops = MaxDeferOps

NextDefer ==
    \/ PollTick
    \/ FetchDone
    \/ \E id \in NodeUniverse : StartEditingNode(id)
    \/ \E id \in NodeUniverse : EndEditingNode(id)
    \/ \E id \in NodeUniverse : ToggleNodeComplete(id)
    \/ \E id \in NodeUniverse : DeleteNode(id)
    \/ ResumePolling
    \/ SettleFire
    \/ DeleteSaveFire
    \/ QueueFire
    \/ RetryFire
    \/ SaveTimeoutFire
    \/ Tick
    \/ SaveDone
    \/ SaveFail

SpecDefer ==
    /\ InitDefer
    /\ [][NextDefer]_vars
    /\ WF_vars(ResumePolling)
    /\ WF_vars(SettleFire)
    /\ WF_vars(DeleteSaveFire)
    /\ WF_vars(QueueFire)
    /\ WF_vars(RetryFire)
    /\ WF_vars(SaveTimeoutFire)
    /\ WF_vars(Tick)
    /\ WF_vars(SaveDone \/ SaveFail)
    /\ WF_vars(FetchDone)

(* ---------------------------------------------------------------------- *)
(* Node creation next to the poll loop and another client                 *)
(* ---------------------------------------------------------------------- *)
InitCreate ==
    /\ Mounted
    /\ remoteLoc = "meta"
    /\ ops = MaxCreateOps

NextCreate ==
    \/ PollTick
    \/ FetchDone
    \/ RemoteChange
    \/ \E id \in NodeUniverse : OnConnectStart(id)
    \/ \E id \in NodeUniverse : OnConnect(id)
    \/ \E id \in NodeUniverse, onPane \in BOOLEAN : OnConnectEnd(id, onPane)
    \/ ResumePolling
    \/ QueueFire
    \/ SaveTimeoutFire
    \/ Tick
    \/ SaveDone

SpecCreate == InitCreate /\ [][NextCreate]_vars

(* ---------------------------------------------------------------------- *)
(* Teardown of the view next to the scheduler and the poll loop           *)
(* ---------------------------------------------------------------------- *)
\* the first fetch answered with one node below the root
InitTeardown ==
    /\ Quiet
    /\ nodes = RootEffectNodes(
                   MergeNodes(<<>>, <<RemoteNode(N1, "r")>>, {}, FALSE), "meta")
    /\ edges = MergeEdges(<<>>, <<RemoteEdge(RootId, N1, "")>>, {}, FALSE)
    /\ nodeCounter = MergeCounter(<<>>, <<RemoteNode(N1, "r")>>, 0, FALSE)
    /\ location = "meta"
    /\ fetchesInFlight = 0
    /\ remote = [nodes |-> <<RemoteNode(N1, "r")>>,
                 edges |-> <<RemoteEdge(RootId, N1, "")>>]
    /\ remoteLoc = "meta"
    /\ cache = CacheEntry(remote, remoteLoc)
    /\ ops = MaxTeardownOps

NextTeardown ==
    \/ PollTick
    \/ FetchDone
    \/ FetchFail
    \/ RemoteChange
    \/ Teardown
    \/ \E id \in NodeUniverse : StartEditingNode(id)
    \/ \E id \in NodeUniverse : EndEditingNode(id)
    \/ \E id \in NodeUniverse : ToggleNodeComplete(id)
    \/ \E id \in NodeUniverse : DeleteNode(id)
    \/ ResumePolling
    \/ SettleFire
    \/ DeleteSaveFire
    \/ QueueFire
    \/ RetryFire
    \/ SaveTimeoutFire
    \/ Tick
    \/ SaveDone
    \/ SaveFail

SpecTeardown == InitTeardown /\ [][NextTeardown]_vars

(* ---------------------------------------------------------------------- *)
(* LocalCache reads: the view mounts on what an earlier session, or       *)
(* anything else writing to localStorage, left under the key              *)
(* ---------------------------------------------------------------------- *)
\* an item is malformed when it does not parse to an object, or when the
\* object lacks one of the fields of storageData
Malformed(item) ==
    \/ JsonParseThrows(item)
    \/ ~({"location", "graph", "timestamp"} \subseteq DOMAIN item)

\* the ages of the entries an earlier session left
CacheAges == {0, DAY_MS - 1, DAY_MS, DAY_MS + 1}

\* what localStorage may hold under the key at mount
StoredItems ==
    {<<>>}
    \cup { <<[location |-> loc, graph |-> g, timestamp |-> DateNow - age]>> :
               loc \in {"meta", "empty"}, g \in RemoteSnapshots,
               age \in CacheAges }
    \cup { <<[text |-> t]>> : t \in {"garbage", "null"} }
    \cup { <<[location |-> "meta", graph |-> g]>> : g \in RemoteSnapshots }
    \cup { <<[location |-> "meta", timestamp |-> DateNow - age]>> :
               age \in CacheAges }

\* the view before its mount effect ran
InitCache ==
    /\ Quiet
    /\ nodes = <<>>
    /\ edges = <<>>
    /\ nodeCounter = 0
    /\ location = "null"
    /\ fetchesInFlight = 0
    /\ remote \in RemoteSnapshots
    /\ remoteLoc = "meta"
    /\ cache \in StoredItems
    /\ ops = MaxCacheOps

NextCache ==
    \/ LoadCache
    \/ PollTick
    \/ FetchDone
    \/ FetchFail

SpecCache == InitCache /\ [][NextCache]_vars

(* ---------------------------------------------------------------------- *)
(* Properties                                                             *)
(* ---------------------------------------------------------------------- *)
\* C1: while an id is in the EditSet, a reconciliation pass leaves the
\* store's value of that node or edge as it was, whatever the snapshot
\* holds for the id (another value, or nothing)
C1_EditSetProtects ==
    [][last'.op = "fetchDone" =>
          /\ \A id \in editingNodes : FindById(nodes', id) = FindById(nodes, id)
          /\ \A id \in editingEdges : FindById(edges', id) = FindById(edges, id)]_vars

\* a reconciliation pass just ran over a node under edit whose snapshot
\* value differs from the local one or is missing
C1_Witness ==
    /\ last.op = "fetchDone"
    /\ \E id \in editingNodes :
           /\ FindById(nodes, id) # <<>>
           /\ FindById(remote.nodes, id) # <<PersistNode(FindById(nodes, id)[1])>>

\* C2: every executed save sends exactly the content the store has at the
\* moment the execution begins (all non-root nodes, all edges), never an
\* older state captured when the save was requested or scheduled
C2_PayloadIsCurrentStore == saveLog.payload = saveLog.store

\* C3: deleteNode(n) removes exactly n and the nodes reachable from n,
\* exactly the edges touching a removed node, and never the root
C3_DeleteExact ==
    [][\A n \in StoreIds :
          (last'.op \in {"deleteNode", "deleteNodeThrew"} /\ last'.arg = n) =>
              LET removed == ReachFrom({n}, {}, edges)
              IN  /\ nodes' = SeqFilter(nodes, {x \in SeqToSet(nodes) :
                                                  x.id \notin removed})
                  /\ edges' = SeqFilter(edges, {e \in SeqToSet(edges) :
                                                  /\ e.source \notin removed
                                                  /\ e.target \notin removed})
                  /\ RootId \in NodeIds(nodes) => RootId \in NodeIds(nodes')]_vars

\* C4: no fetched snapshot is applied while a save execution is under way,
\* and no save execution starts while a poll fetch awaits its response
C4_NoInterleaving ==
    /\ last.op = "fetchDone" => savesInFlight = EmptyBag
    /\ last.save = "executed" => fetchesInFlight = 0

\* C5: a poll tick fetches only when no remote write is in flight, the
\* poll-pause flag is clear and the EditSet is empty
C5_TickIsNoOp ==
    last.op = "fetchStart" =>
        /\ savesInFlight = EmptyBag
        /\ ~pollingPaused
        /\ ~HasActiveEdits(editingNodes, editingEdges)

\* C6: no poll fetch starts from the start of a save execution until one
\* second after the completion of that save
C6_PollSuppressed ==
    [][last'.op = "fetchStart" =>
          /\ savesInFlight = EmptyBag
          /\ sinceSaveEnd >= RESUME_DELAY_MS]_vars

C9_RequestDuringWriteQueues ==
    [][(last'.save # "none" /\ ~last'.immediate /\ savesInFlight # EmptyBag) =>
          /\ last'.save = "queued"
          /\ Len(saveQueue') = Len(saveQueue) + 1
          /\ SubSeq(saveQueue', 1, Len(saveQueue)) = saveQueue
          /\ savesInFlight' = savesInFlight
          /\ saveStatus' = saveStatus
          /\ hasUnsavedChanges' = hasUnsavedChanges
          /\ pollingPaused' = pollingPaused
          /\ last'.op # "saveTimeoutFire" => saveTimeout' = saveTimeout]_vars

\* C10: once no write is in flight and no timer is pending, no request is
\* left in the deferred queue
C10_QueueDrains ==
    (savesInFlight = EmptyBag /\ timers = EmptyBag /\ saveTimeout.kind = "none")
        => saveQueue = <<>>

C12_ThreeAttempts ==
    /\ \A c \in DOMAIN savesInFlight : c.immediate => c.retryCount + 1 <= 3
    /\ \A t \in DOMAIN timers : t.kind = "retry" => t.retryCount + 1 <= 3

\* C13: the k-th failure (k <= 2) of an immediate save schedules its retry
\* k seconds later, and a successful save with no local mutation since its
\* start leaves the status `saved` and the dirty flag clear
C13_RetryThenSaved ==
    [][\A c \in DOMAIN savesInFlight :
          /\ (/\ last'.op = "saveFail"
              /\ savesInFlight' = BagRemove(savesInFlight, c)
              /\ c.immediate
              /\ c.retryCount < 2) =>
                 Timer("retry", RETRY_BASE_MS * (c.retryCount + 1), TRUE,
                       c.retryCount + 1, c.cn, c.ce) \in DOMAIN timers'
          /\ (/\ last'.op = "saveDone"
              /\ savesInFlight' = BagRemove(savesInFlight, c)
              /\ GraphData(c.cn, c.ce) = saveLog.payload
              /\ GraphData(nodes, edges) = saveLog.store) =>
                 /\ saveStatus' = "saved"
                 /\ hasUnsavedChanges' = FALSE]_vars

\* C14: a failure that no retry follows leaves the status `error` and the
\* dirty flag set, both stay so until the next save execution begins, and
\* the failure of a non-immediate save schedules no retry
C14_ErrorStays ==
    [][/\ \A c \in DOMAIN savesInFlight :
              (/\ last'.op = "saveFail"
               /\ savesInFlight' = BagRemove(savesInFlight, c)
               /\ ~MayRetry(c.immediate, c.retryCount)) =>
                  /\ saveStatus' = "error"
                  /\ hasUnsavedChanges'
                  /\ ~c.immediate => DueTimers("retry")' = DueTimers("retry")
       /\ (/\ saveStatus = "error"
           /\ \A t \in DOMAIN timers : t.kind # "retry"
           /\ last'.save # "executed") =>
              /\ hasUnsavedChanges
              /\ saveStatus' = "error"
              /\ hasUnsavedChanges']_vars

\* C15: an executed save attempt starts exactly one remote write; the save
\* path writes the cache only when that write succeeded, with the payload
\* that was sent; a failed save leaves the cache entry as it was
C15_CacheOnSuccessOnly ==
    [][/\ last'.save = "executed" =>
              /\ \E c \in DOMAIN savesInFlight' :
                     savesInFlight' = BagAdd(savesInFlight, c)
              /\ cache' = cache
       /\ \A c \in DOMAIN savesInFlight :
              (last'.op = "saveDone" /\ savesInFlight' = BagRemove(savesInFlight, c)) =>
                  /\ cache' # <<>>
                  /\ cache'[1].graph = GraphData(c.cn, c.ce)
                  /\ remote' = GraphData(c.cn, c.ce)
       /\ last'.op = "saveFail" => cache' = cache /\ remote' = remote
       /\ cache' # cache => last'.op = "saveDone"]_vars

\* a save succeeded after an earlier write had failed, and the cache holds
\* the graph without the deleted node that was sent
C15_Witness ==
    /\ last.op = "saveDone"
    /\ failures > 0
    /\ cache # <<>>
    /\ cache[1].graph = remote
    /\ remote.nodes = <<>>

\* C16: the save state starts `saved` and not dirty; a local mutation of the
\* graph sets the dirty flag, which stays set until a save execution begins
C16_MutationSetsDirty ==
    [][/\ last.op = "init" => saveStatus = "saved" /\ ~hasUnsavedChanges
       /\ (/\ last'.op \in {"toggleNodeComplete", "deleteNode", "onConnectEnd",
                            "updateNodeText"}
           /\ last'.save # "executed") => hasUnsavedChanges'
       /\ (hasUnsavedChanges /\ last'.save # "executed") => hasUnsavedChanges']_vars

\* C17: a steady-state reconciliation (more than one node in the store)
\* leaves, for every id, the local element when the id is in the EditSet or
\* is the root, the snapshot element otherwise, and nothing when the
\* snapshot has none; with an empty EditSet the persisted content of the
\* store then equals the snapshot
C17_SteadyStateMerge ==
    [][(last'.op = "fetchDone" /\ Len(nodes) > 1) =>
          /\ \A id \in NodeUniverse :
                 FindById(nodes', id) =
                     IF id = RootId \/ id \in editingNodes
                     THEN FindById(nodes, id)
                     ELSE IF FindById(remote.nodes, id) # <<>>
                     THEN <<LoadedNode(FindById(remote.nodes, id)[1])>>
                     ELSE <<>>
          /\ \A id \in EdgeUniverse :
                 FindById(edges', id) =
                     IF id \in editingEdges
                     THEN FindById(edges, id)
                     ELSE IF FindById(remote.edges, id) # <<>>
                     THEN <<LoadedEdge(FindById(remote.edges, id)[1])>>
                     ELSE <<>>
          /\ Cardinality(NodeIds(nodes')) = Len(nodes')
          /\ Cardinality(EdgeIds(edges')) = Len(edges')
          /\ ~HasActiveEdits(editingNodes, editingEdges) =>
                 GraphData(nodes', edges') = remote]_vars

\* C18: with at most one node in the store, or a snapshot from the local
\* cache, a reconciliation leaves the snapshot's nodes and edges as the
\* store's non-root nodes and edges; every reconciliation keeps an existing
\* root as it was, and the store never holds two nodes with id root
C18_WholesaleReplaces ==
    [][/\ (last'.op = "fetchDone" /\ Len(nodes) <= 1) =>
              GraphData(nodes', edges') = remote
       /\ (last'.op = "loadCache" /\ cache # <<>>) =>
              GraphData(nodes', edges') = cache[1].graph
       /\ (last'.op \in {"fetchDone", "loadCache"} /\ FindById(nodes, RootId) # <<>>) =>
              FindById(nodes', RootId) = FindById(nodes, RootId)
       /\ Cardinality({i \in DOMAIN nodes' : nodes'[i].id = RootId}) <= 1]_vars

\* C19: a second reconciliation of the same snapshot, right after the
\* first, leaves the same nodes, the same edges and the same id counter
C19_SecondPassNoChange ==
    [][(last.op = "fetchDone" /\ last'.op = "fetchDone") =>
          /\ SeqToSet(nodes') = SeqToSet(nodes)
          /\ SeqToSet(edges') = SeqToSet(edges)
          /\ nodeCounter' = nodeCounter]_vars

\* C20: a fetch response reconciled right after a successful save, with no
\* edit active, leaves the saved payload as the store's non-root nodes and
\* edges (persisted fields)
C20_RoundTrip ==
    [][(/\ last.op = "saveDone"
        /\ last'.op = "fetchDone"
        /\ ~HasActiveEdits(editingNodes, editingEdges)) =>
          /\ remote' = remote
          /\ GraphData(nodes', edges') = remote]_vars

\* a response was reconciled at the instant a save succeeded, and the store
\* holds the saved nodes
C20_Witness ==
    /\ last.op = "fetchDone"
    /\ executions > 0
    /\ sinceSaveEnd = 0
    /\ ~HasActiveEdits(editingNodes, editingEdges)
    /\ Len(remote.nodes) > 0
    /\ GraphData(nodes, edges) = remote

\* C21: right after an edit begins on a node or on an edge, no scheduled
\* save timer is pending: neither the timer of saveTimeoutRef (throttle or
\* edit-defer) nor a settle-delay or queue re-invoke timer
C21_EditBeginCancelsTimers ==
    [][last'.op \in {"startEditingNode", "onEdgeDoubleClick"} =>
          /\ saveTimeout'.kind = "none"
          /\ \A t \in DOMAIN timers' : t.kind \notin {"settle", "queue"}]_vars

\* C22: an edit that ends, on a node or on an edge, takes the id out of the
\* EditSet and schedules a non-immediate save
C22_EditEndClearsAndSaves ==
    [][last'.op \in {"endEditingNode", "endEditingEdge"} =>
          /\ last'.arg \notin editingNodes' \cup editingEdges'
          /\ \E t \in DOMAIN timers' : t.kind = "settle" /\ ~t.immediate]_vars

\* C23: the node ids of the store are pairwise distinct: a node created
\* locally never gets the id of a node the store already holds
C23_NodeIdsDistinct == Cardinality(NodeIds(nodes)) = Len(nodes)

\* C24: after a wholesale replacement by a snapshot that holds nodes, by a
\* fetch response or from the local cache, the id counter is one more than
\* the largest numeric suffix of the snapshot's node ids
C24_CounterSeeded ==
    [][\A graph \in {remote} \cup {cache[i].graph : i \in DOMAIN cache} :
          (/\ Len(graph.nodes) > 0
           /\ \/ last'.op = "fetchDone" /\ graph = remote /\ Len(nodes) <= 1
              \/ last'.op = "loadCache" /\ cache # <<>> /\ graph = cache[1].graph) =>
              /\ \A i \in DOMAIN graph.nodes :
                     NodeSuffix(graph.nodes[i].id) < nodeCounter'
              /\ \E i \in DOMAIN graph.nodes :
                     NodeSuffix(graph.nodes[i].id) + 1 = nodeCounter']_vars

\* a fetch response replaced the nodes of a store that held only the root,
\* and the counter moved to the suffix of the loaded node plus one
C24_Witness ==
    /\ last.op = "fetchDone"
    /\ Len(nodes) = 2
    /\ nodeCounter = 2
    /\ nodeCounter # MaxStoreNum + 1

\* C25: the store holds at most one edge for an ordered pair (source,
\* target), and the edge ids of the store are pairwise distinct
C25_EdgesDistinct ==
    /\ Cardinality(EdgeIds(edges)) = Len(edges)
    /\ Cardinality({<<edges[i].source, edges[i].target>> : i \in DOMAIN edges})
           = Len(edges)

\* C26: once the view is torn down, no poll tick and no save timer
\* (throttle, edit-defer, settle, queue, retry) fires: no fetch starts and
\* no remote write begins
C26_QuietAfterTeardown ==
    [][unmounted =>
          /\ last'.op \notin {"fetchStart", "pollSkipped", "saveTimeoutFire",
                              "settleFire", "queueFire", "retryFire"}
          /\ fetchesInFlight' <= fetchesInFlight
          /\ executions' = executions]_vars

\* C27: a fetch or a remote write that completes after the teardown changes
\* neither the store, nor the save status and the dirty flag, nor the cache,
\* and schedules no timer
C27_LateResultIgnored ==
    [][(unmounted /\ last'.op \in {"fetchDone", "fetchFail", "saveDone", "saveFail"}) =>
          /\ UNCHANGED <<storeVars, saveStatus, hasUnsavedChanges, cache>>
          /\ \A t \in DOMAIN timers' : t \in DOMAIN timers /\ timers'[t] <= timers[t]
          /\ saveTimeout' = saveTimeout]_vars

\* C28: a fetch that fails changes neither the store, nor the EditSets, the
\* save state, the timers and the cache, and leaves the poll loop as it
\* was: the interval is not cleared and the next tick is skipped or not as
\* before. A response that arrives afterwards for a location with
\* metadata, with no edit active, makes the persisted content of the store
\* equal to the remote snapshot
C28_FetchFailHarmless ==
    [][/\ last'.op = "fetchFail" =>
              /\ UNCHANGED <<storeVars, editVars, saveVars, clockVars, cache,
                             timers, unmounted>>
              /\ PollSkipped' = PollSkipped
       /\ (fetchFailed /\ last'.op = "fetchDone" /\ ~unmounted
            /\ HasMetadata(remoteLoc)
            /\ ~HasActiveEdits(editingNodes, editingEdges)) =>
              GraphData(nodes', edges') = remote]_vars

\* a fetch has failed while the store differed from the remote snapshot, the
\* view stayed mounted, and the response of a later tick has been merged
C28_Witness ==
    /\ fetchFailed
    /\ last.op = "fetchDone"
    /\ ~unmounted
    /\ HasMetadata(location)
    /\ GraphData(nodes, edges) = remote
    /\ remote.nodes # <<>>
    /\ executions = 0
    /\ cache # <<>>

\* C29: a read of the cache is a hit exactly when an entry is stored and its
\* age is under 24 hours; a hit hands the stored entry to the store and
\* leaves it in the cache; an entry of 24 hours or more is a miss and is
\* gone from the cache after the read
C29_FreshEntriesOnly ==
    [][last'.op = "loadCache" =>
          LET fresh == /\ cache # <<>>
                       /\ ~JsonParseThrows(cache[1])
                       /\ "timestamp" \in DOMAIN cache[1]
                       /\ DateNow - cache[1].timestamp < DAY_MS
              old == /\ cache # <<>>
                     /\ ~JsonParseThrows(cache[1])
                     /\ "timestamp" \in DOMAIN cache[1]
                     /\ DateNow - cache[1].timestamp >= DAY_MS
          IN  /\ last'.arg[1] = "hit" <=> fresh
              /\ fresh =>
                     /\ cache' = cache
                     /\ location' = CachedLocation(cache[1])
                     /\ (~Malformed(cache[1]) /\ HasMetadata(location')) =>
                            GraphData(nodes', edges') = cache[1].graph
              /\ old =>
                     /\ last'.arg[1] = "miss"
                     /\ cache' = <<>>
                     /\ UNCHANGED storeVars]_vars

\* a read found an entry of exactly 24 hours: a miss, the entry is gone
C29_Witness ==
    /\ last.op = "loadCache"
    /\ last.arg = <<"miss", DAY_MS>>
    /\ cache = <<>>
    /\ nodes = <<>>

\* C30: a read that finds a malformed or unreadable entry is a miss, leaves
\* the store as it was, and the cache holds no entry afterwards
C30_MalformedDiscarded ==
    [][(last'.op = "loadCache" /\ cache # <<>> /\ Malformed(cache[1])) =>
          /\ last'.arg[1] = "miss"
          /\ UNCHANGED storeVars
          /\ cache' = <<>>]_vars

\* C31: a connection gesture released on a node or on a handle adds no node
\* to the store; released on a handle with the source in the store it adds
\* exactly one edge, which runs between two nodes the store already held
C31_DirectConnectOnlyEdge ==
    [][last'.op \in {"onConnect", "onConnectEndOnNode"} =>
          /\ nodes' = nodes
          /\ (last'.op = "onConnect" /\ last'.arg \in NodeIds(nodes)) =>
                 /\ Len(edges') = Len(edges) + 1
                 /\ edges'[Len(edges')].source \in NodeIds(nodes)
                 /\ edges'[Len(edges')].target \in NodeIds(nodes)]_vars

\* C32: a connection gesture started on s and released on the empty canvas
\* appends one outcome node with id node-<counter> at the release point and
\* one edge edge-<s>-<new id> from s to it, adds one to the counter, leaves
\* every other node and edge as it was, and requests a non-immediate save
C32_CanvasReleaseCreates ==
    [][last'.op = "onConnectEnd" =>
          LET s == last'.arg
              newId == <<"node", nodeCounter>>
              newNode == nodes'[Len(nodes')]
              newEdge == edges'[Len(edges')]
          IN  /\ s = connectingNodeId
              /\ Len(nodes') = Len(nodes) + 1
              /\ \A i \in DOMAIN nodes : nodes'[i] = nodes[i]
              /\ newNode.id = newId
              /\ newNode.type = "outcomeNode"
              /\ newNode.position = <<1, 1>>
              /\ newNode.text = "" /\ ~newNode.completed
              /\ Len(edges') = Len(edges) + 1
              /\ \A i \in DOMAIN edges : edges'[i] = edges[i]
              /\ newEdge.id = <<"edge", s, newId>>
              /\ newEdge.source = s
              /\ newEdge.target = newId
              /\ nodeCounter' = nodeCounter + 1
              /\ last'.save \in {"executed", "throttled", "deferred", "queued"}
              /\ ~last'.immediate]_vars

\* a gesture was released on the canvas of a store that held other nodes and
\* edges, and its save was put off by the throttle
C32_Witness ==
    /\ last.op = "onConnectEnd"
    /\ Len(nodes) > 2
    /\ Len(edges) > 1
    /\ last.save = "throttled"

\* C33: while the location has no metadata the store holds no node and no
\* edge, and the canvas is not shown
C33_EmptyWithoutMetadata ==
    ~HasMetadata(location) =>
        /\ nodes = <<>>
        /\ edges = <<>>
        /\ ~CanvasShown

\* C34: a node created on the canvas whose save was put off (throttled,
\* deferred by an edit, or queued) is still in the store after a
\* reconciliation that directly follows its creation
C34_PendingCreationKept ==
    [][(/\ last.op = "onConnectEnd"
        /\ last.save \in {"throttled", "deferred", "queued"}
        /\ last'.op = "fetchDone") =>
          /\ nodes[Len(nodes)].id \in NodeIds(nodes')
          /\ edges[Len(edges)].id \in EdgeIds(edges')]_vars

\* C35: no non-immediate save executes while an edit is active, and after a
\* save request was deferred by an active edit, if the EditSets become and
\* stay empty, a save execution begins with the EditSets empty
C35_DeferredSaveRuns ==
    /\ [][(last'.save = "executed" /\ ~last'.immediate) =>
              ~HasActiveEdits(editingNodes', editingEdges')]_vars
    /\ [](last.save = "deferred" =>
              (<>[](~HasActiveEdits(editingNodes, editingEdges)) =>
                   <>(/\ last.save = "executed"
                      /\ ~HasActiveEdits(editingNodes, editingEdges))))

\* C36: a direct connection whose source is not in the store changes
\* neither the nodes, nor the edges, nor the id counter
C36_RejectedConnectNoChange ==
    [][(last'.op = "onConnect" /\ last'.arg \notin NodeIds(nodes)) =>
          UNCHANGED <<nodes, edges, nodeCounter>>]_vars

\* C37: deleteNode completes on every store, also when a cycle of edges is
\* reachable from the node, and no node reachable from the deleted one is
\* left in the store
C37_DeleteTerminates ==
    [][last'.op \in {"deleteNode", "deleteNodeThrew"} =>
          /\ last'.op = "deleteNode"
          /\ ReachFrom({last'.arg}, {}, edges) \cap NodeIds(nodes') = {}]_vars

\* C38: a reconciliation that directly follows the end of a node edit leaves
\* the node with the text the edit committed
C38_CommittedTextKept ==
    [][(last.op = "endEditingNode" /\ last'.op = "fetchDone") =>
          /\ FindById(nodes', last.arg) # <<>>
          /\ FindById(nodes', last.arg)[1].text
                 = FindById(nodes, last.arg)[1].text]_vars

\* C39: every edge of the store has its source and its target among the
\* nodes of the store
C39_EdgesHaveEndpoints ==
    \A i \in DOMAIN edges :
        /\ edges[i].source \in NodeIds(nodes)
        /\ edges[i].target \in NodeIds(nodes)

\* C40: every id in the EditSets denotes a node or an edge of the store
C40_EditSetInStore ==
    /\ editingNodes \subseteq NodeIds(nodes)
    /\ editingEdges \subseteq EdgeIds(edges)

====
